---- MODULE Spec2Model ----
(***************************************************************************)
(* Model of jcsfs.py: a FUSE file system (class JCSFs) that overlays a     *)
(* local cache directory (config['datadir']) on a directory of a remote    *)
(* SFTP server (config['ssh']['path']).                                    *)
(*                                                                         *)
(* Four directory trees are involved, all indexed by the virtual path:     *)
(*   cache    the host's files under datadir            (LocalPath(P))     *)
(*   srcfs    the host's files under ssh.path           (the first         *)
(*            argument of sftp.put names a file of the host)               *)
(*   remote   the server's files under ssh.path         (RemotePath(P))    *)
(*   uploaded the server's files under datadir          (the second        *)
(*            argument of sftp.put names a file of the server)             *)
(* The model takes datadir and ssh.path to be different directories.       *)
(* Time stamps (st_atime, st_mtime) are left out of the attributes.        *)
(*                                                                         *)
(* FUSE is mounted with nothreads=False: handlers run concurrently, one    *)
(* per worker thread.  Every os.* call and every paramiko call is one      *)
(* step; a paramiko call that talks to the server is two steps, its issue  *)
(* and its completion, and is in progress in between.                      *)
(***************************************************************************)
EXTENDS Integers, Sequences, FiniteSets, Bags, TLC

\* ------------------------------------------------------------------ bounds
\* handler calls dispatched in one run of the sequential specification
MaxCalls == 3
\* handler calls dispatched in one run of the concurrent specification
MaxParCalls == 2

\* ------------------------------------------------------------------- paths
Root == <<>>
D == <<"d">>
DX == <<"d", "x">>
DY == <<"d", "y">>
\* where a rename takes the directory d, with what is below it
E == <<"e">>
EX == <<"e", "x">>
EY == <<"e", "y">>
\* every path of the trees
AllPaths == {Root, D, DX, DY, E, EX, EY}
\* the virtual paths the handlers are called with
VPaths == {D, DX, DY}

Threads == {"t1", "t2"}

Parent(p) == SubSeq(p, 1, Len(p) - 1)
BaseName(p) == p[Len(p)]
IsPrefix(a, b) == Len(a) <= Len(b) /\ SubSeq(b, 1, Len(a)) = a
\* the proper ancestors of p and p itself, the root excluded
Ancestors(p) == {SubSeq(p, 1, i) : i \in 1..Len(p)}

\* ------------------------------------------------------------------- nodes
Absent == [kind |-> "none", data |-> <<>>, mode |-> "-", uid |-> "-", gid |-> "-"]
NewDir == [kind |-> "dir", data |-> <<>>, mode |-> "m755", uid |-> "me", gid |-> "me"]
NewFile(bytes) == [kind |-> "file", data |-> bytes, mode |-> "m644", uid |-> "me", gid |-> "me"]
SrvDir == [kind |-> "dir", data |-> <<>>, mode |-> "m750", uid |-> "srv", gid |-> "srv"]
SrvFile(bytes) == [kind |-> "file", data |-> bytes, mode |-> "m640", uid |-> "srv", gid |-> "srv"]

EmptyFs == [p \in AllPaths |-> IF p = Root THEN NewDir ELSE Absent]
Exists(fs, p) == fs[p].kind # "none"
Entries(fs, p) == {BaseName(q) : q \in {r \in AllPaths : Parent(r) = p /\ r # Root /\ Exists(fs, r)}}
\* what os.lstat and sftp.lstat give, as far as getattr copies it
StatOf(n) == [st_mode |-> <<n.kind, n.mode>>, st_uid |-> n.uid, st_gid |-> n.gid,
              st_size |-> Len(n.data)]


\* ------------------------------------------------------- os.* on one tree
\* each gives [err, fs]: err is "" or the errno of the OSError raised
OsOk(fs) == [err |-> "", fs |-> fs]
OsErr(e, fs) == [err |-> e, fs |-> fs]

\* errno of resolving the directory that is to hold p
DirErr(fs, p) ==
  IF ~Exists(fs, Parent(p)) THEN "ENOENT"
  ELSE IF fs[Parent(p)].kind # "dir" THEN "ENOTDIR" ELSE ""

OsMkdir(fs, p) ==
  IF Exists(fs, p) THEN OsErr("EEXIST", fs)
  ELSE IF DirErr(fs, p) # "" THEN OsErr(DirErr(fs, p), fs)
  ELSE OsOk([fs EXCEPT ![p] = NewDir])

\* os.makedirs(dir) without exist_ok: the missing ancestors are made, an
\* existing leaf is an error
OsMakedirs(fs, dir) ==
  IF Exists(fs, dir) THEN OsErr("EEXIST", fs)
  ELSE IF \E a \in Ancestors(dir) : Exists(fs, a) /\ fs[a].kind # "dir" THEN OsErr("ENOTDIR", fs)
  ELSE OsOk([q \in AllPaths |-> IF q \in Ancestors(dir) /\ ~Exists(fs, q) THEN NewDir ELSE fs[q]])

OsRmdir(fs, p) ==
  IF ~Exists(fs, p) THEN OsErr("ENOENT", fs)
  ELSE IF fs[p].kind # "dir" THEN OsErr("ENOTDIR", fs)
  ELSE IF Entries(fs, p) # {} THEN OsErr("ENOTEMPTY", fs)
  ELSE OsOk([fs EXCEPT ![p] = Absent])

OsUnlink(fs, p) ==
  IF ~Exists(fs, p) THEN OsErr("ENOENT", fs)
  ELSE IF fs[p].kind = "dir" THEN OsErr("EISDIR", fs)
  ELSE OsOk([fs EXCEPT ![p] = Absent])

OsChmod(fs, p, m) ==
  IF ~Exists(fs, p) THEN OsErr("ENOENT", fs)
  ELSE OsOk([fs EXCEPT ![p].mode = m])

OsChown(fs, p, u, g) ==
  IF ~Exists(fs, p) THEN OsErr("ENOENT", fs)
  ELSE OsOk([fs EXCEPT ![p].uid = u, ![p].gid = g])

\* the tree after the entry at old, with all below it, has moved to new
MoveTree(fs, old, new) ==
  [q \in AllPaths |->
     IF IsPrefix(new, q)
       THEN LET src == old \o SubSeq(q, Len(new) + 1, Len(q))
            IN IF src \in AllPaths THEN fs[src] ELSE Absent
     ELSE IF IsPrefix(old, q) THEN Absent
     ELSE fs[q]]

OsRename(fs, old, new) ==
  IF ~Exists(fs, old) THEN OsErr("ENOENT", fs)
  ELSE IF DirErr(fs, new) # "" THEN OsErr(DirErr(fs, new), fs)
  ELSE IF old = new THEN OsOk(fs)
  ELSE IF fs[old].kind = "dir" /\ IsPrefix(old, new) THEN OsErr("EINVAL", fs)
  ELSE IF Exists(fs, new) /\ fs[old].kind = "dir" /\ fs[new].kind # "dir" THEN OsErr("ENOTDIR", fs)
  ELSE IF Exists(fs, new) /\ fs[old].kind # "dir" /\ fs[new].kind = "dir" THEN OsErr("EISDIR", fs)
  ELSE IF Exists(fs, new) /\ fs[new].kind = "dir" /\ Entries(fs, new) # {} THEN OsErr("ENOTEMPTY", fs)
  ELSE OsOk(MoveTree(fs, old, new))

\* open(p, "a+b"); seek(offset, 0); write(bytes): the file is made when it
\* is missing, and in append mode every write goes to the end of the file,
\* wherever the seek went
OpenAppendWrite(fs, p, bytes, offset) ==
  IF Exists(fs, p) /\ fs[p].kind = "dir" THEN OsErr("EISDIR", fs)
  ELSE IF DirErr(fs, p) # "" THEN OsErr(DirErr(fs, p), fs)
  ELSE LET old == IF Exists(fs, p) THEN fs[p] ELSE NewFile(<<>>)
       IN OsOk([fs EXCEPT ![p] = [old EXCEPT !.data = old.data \o bytes]])

Min(a, b) == IF a < b THEN a ELSE b
\* open(p, "r+b"); seek(offset, 0); read(size): [err, buf]
OpenRead(fs, p, size, offset) ==
  IF ~Exists(fs, p) THEN [err |-> "ENOENT", buf |-> <<>>]
  ELSE IF fs[p].kind = "dir" THEN [err |-> "EISDIR", buf |-> <<>>]
  ELSE [err |-> "", buf |-> SubSeq(fs[p].data, offset + 1, Min(offset + size, Len(fs[p].data)))]

\* list(set(names)): every name once, in no particular order
ListOfSet(names) == SetToBag(BagToSet(names))
\* the names of a listing as a list (a bag: the order is left open)
Listing(fs, p) == SetToBag(Entries(fs, p))

\* ------------------------------------------------------------------- state
VARIABLES
  cache,     \* the host's tree under datadir: the local cache
  srcfs,     \* the host's tree under ssh.path
  remote,    \* the server's tree under ssh.path: the remote store
  uploaded,  \* the server's files under datadir, by virtual path
  sftp,      \* self.sftp: 0 for None, else the number of the session handle
  nsetup,    \* connection setups completed so far (the newest handle)
  alive,     \* the session handles whose channel and transport are open
  torn,      \* the teardown hook has been dispatched
  pc,        \* where each worker thread is in its handler
  call,      \* the handler call each thread runs, with its arguments
  tmp,       \* the locals of that call, and what it did so far
  ret,       \* how the thread's call ended
  budget,    \* handler calls still to be dispatched in this run
  last       \* the call that the newest call of a thread replaced

fsVars == <<cache, srcfs, remote, uploaded>>
sessVars == <<sftp, nsetup, alive>>
vars == <<cache, srcfs, remote, uploaded, sftp, nsetup, alive, torn, pc, call, tmp, ret,
          budget, last>>

\* --------------------------------------------------------- calls, results
NoCall == [op |-> "none", path |-> Root, new |-> Root, data |-> <<>>, offset |-> 0,
           size |-> 0, mode |-> "-", uid |-> "-", gid |-> "-"]
CallOf(o, p) == [NoCall EXCEPT !.op = o, !.path = p]
\* the calls the bridge dispatches
Calls ==
  {CallOf(o, p) : o \in {"getattr", "readdir", "mkdir", "rmdir", "unlink"}, p \in VPaths}
  \cup {[CallOf("read", p) EXCEPT !.size = 2, !.offset = 0] : p \in VPaths}
  \cup {[CallOf("write", p) EXCEPT !.data = <<1>>, !.offset = 0] : p \in VPaths}
  \cup {[CallOf("rename", pq[1]) EXCEPT !.new = pq[2]] : pq \in {x \in VPaths \X VPaths : x[1] # x[2]}}
  \cup {[CallOf("rename", D) EXCEPT !.new = E]}
  \cup {[CallOf("chmod", p) EXCEPT !.mode = "m600"] : p \in VPaths}
  \cup {[CallOf("chown", p) EXCEPT !.uid = "u1", !.gid = "g1"] : p \in VPaths}
  \cup {CallOf("destroy", Root)}

\* the handlers that start with __downloadFileIfNotExists
DlOps == {"read", "write", "rename", "chmod", "chown"}

\* dl: "no" while __downloadFileIfNotExists has not returned, "hit" when it
\* returned at line 54, "fetched" when it returned after line 61.
\* pre: at its entry LocalPath was missing and the remote object was a file.
\* conc: at its entry another thread was inside it for the same path.
\* rc: the remote calls this call has issued, in order.
NoTmp == [h |-> 0, files |-> EmptyBag, sawLocal |-> FALSE, pre |-> FALSE, dl |-> "no",
          conc |-> FALSE, rc |-> <<>>, got |-> Absent]
NoRet == [status |-> "none", exc |-> "", errno |-> "", val |-> "None"]
Ok(v) == [status |-> "ok", exc |-> "", errno |-> "", val |-> v]
Raised(e, n) == [status |-> "raise", exc |-> e, errno |-> n, val |-> "None"]
NoLast == [op |-> "none", path |-> Root, pre |-> FALSE, dl |-> "no", puts |-> 0, ok |-> FALSE]

Count(seq, x) == Cardinality({i \in 1..Len(seq) : seq[i] = x})

\* where a handler starts
Entry(o) ==
  CASE o = "getattr" -> "ga_exists"
    [] o = "readdir" -> "rd_exists"
    [] o = "mkdir" -> "mkdir_io"
    [] o = "rmdir" -> "rmdir_exists"
    [] o = "unlink" -> "unlink_io"
    [] o = "destroy" -> "destroy_sftp"
    [] OTHER -> "dl_exists"
\* where a handler goes on after __downloadFileIfNotExists returned
AfterDl(o) ==
  CASE o = "read" -> "read_io"
    [] o = "write" -> "write_io"
    [] o = "rename" -> "rename_io"
    [] o = "chmod" -> "chmod_io"
    [] OTHER -> "chown_io"
\* where the caller of __getSFTPClient goes on
AfterGs(o) ==
  CASE o = "getattr" -> "ga_rlstat"
    [] o = "readdir" -> "rd_rlist"
    [] OTHER -> "dl_put"

\* ---------------------------------------------------------- initial states
LocalSome == [EmptyFs EXCEPT ![D] = NewDir, ![DX] = NewFile(<<1>>)]
HostSome == [EmptyFs EXCEPT ![D] = NewDir, ![DX] = NewFile(<<2>>)]
RemoteOne == [EmptyFs EXCEPT ![Root] = SrvDir, ![D] = SrvDir, ![DX] = SrvFile(<<0, 0>>)]
RemoteTwo == [RemoteOne EXCEPT ![DY] = SrvFile(<<0>>)]

\* JCSFs.__init__: datadir exists, no session yet; the cache may hold files
\* of an earlier mount
InitWith(n) ==
  /\ cache \in {EmptyFs, LocalSome}
  /\ srcfs \in {EmptyFs, HostSome}
  /\ remote \in {RemoteOne, RemoteTwo}
  /\ uploaded = [p \in VPaths |-> Absent]
  /\ sftp = 0
  /\ nsetup = 0
  /\ alive = {}
  /\ torn = FALSE
  /\ pc = [t \in Threads |-> "idle"]
  /\ call = [t \in Threads |-> NoCall]
  /\ tmp = [t \in Threads |-> NoTmp]
  /\ ret = [t \in Threads |-> NoRet]
  /\ budget = n
  /\ last = NoLast

Init == InitWith(MaxParCalls)
SeqInit == InitWith(MaxCalls)

\* ------------------------------------------------------------ the dispatch
\* the bridge hands thread t its next call
Dispatch(t) ==
  /\ pc[t] \in {"idle", "done"}
  /\ budget > 0
  /\ \E c \in Calls :
       /\ c.op = "destroy" => ~torn
       /\ call' = [call EXCEPT ![t] = c]
       /\ pc' = [pc EXCEPT ![t] = Entry(c.op)]
       /\ torn' = (torn \/ c.op = "destroy")
  /\ tmp' = [tmp EXCEPT ![t] = NoTmp]
  /\ ret' = [ret EXCEPT ![t] = NoRet]
  /\ budget' = budget - 1
  /\ last' = IF pc[t] = "done"
               THEN [op |-> call[t].op, path |-> call[t].path, pre |-> tmp[t].pre,
                     dl |-> tmp[t].dl, puts |-> Count(tmp[t].rc, "put"),
                     ok |-> (ret[t].status = "ok")]
               ELSE last
  /\ UNCHANGED <<fsVars, sessVars>>

\* thread t goes on at place q
Goto(t, q) == pc' = [pc EXCEPT ![t] = q] /\ UNCHANGED ret
\* the call of thread t ends with r
Finish(t, r) == pc' = [pc EXCEPT ![t] = "done"] /\ ret' = [ret EXCEPT ![t] = r]
\* an exception e leaves the handler of thread t: getattr turns an IOError of
\* its remote branch (lines 77-81) into FuseOSError(ENOENT)
Throw(t, e, n) ==
  IF call[t].op = "getattr" /\ e = "IOError"
    THEN Finish(t, Raised("FuseOSError", "ENOENT"))
    ELSE Finish(t, Raised(e, n))

Did(t, k) == [tmp[t] EXCEPT !.rc = Append(@, k)]
\* a local os.* call of thread t with outcome r ends the handler: the
\* OSError leaves it, or it returns v
EndLocal(t, r, v) ==
  /\ cache' = r.fs
  /\ Finish(t, IF r.err # "" THEN Raised("OSError", r.err) ELSE Ok(v))
  /\ UNCHANGED <<srcfs, remote, uploaded, sessVars, torn, call, tmp, budget, last>>

\* ------------------------------------------------- __getSFTPClient (39-50)
\* line 40: the handle is there, or the connection is to be set up
GsCheck(t) ==
  /\ pc[t] = "gs_check"
  /\ IF sftp # 0
       THEN /\ tmp' = [tmp EXCEPT ![t].h = sftp]
            /\ Goto(t, AfterGs(call[t].op))
       ELSE /\ Goto(t, "gs_connect")
            /\ UNCHANGED tmp
  /\ UNCHANGED <<fsVars, sessVars, torn, call, budget, last>>

\* line 43: client.connect is issued
GsConnect(t) ==
  /\ pc[t] = "gs_connect"
  /\ tmp' = [tmp EXCEPT ![t] = Did(t, "connect")]
  /\ Goto(t, "gs_wait")
  /\ UNCHANGED <<fsVars, sessVars, torn, call, budget, last>>

\* lines 43-50: connect and open_sftp complete and self.sftp is set, or the
\* setup fails with a socket error (an IOError) or an SSHException
GsDone(t) ==
  /\ pc[t] = "gs_wait"
  /\ \/ /\ nsetup' = nsetup + 1
        /\ sftp' = nsetup + 1
        /\ alive' = alive \cup {nsetup + 1}
        /\ tmp' = [tmp EXCEPT ![t].h = nsetup + 1]
        /\ Goto(t, AfterGs(call[t].op))
     \/ /\ \E e \in {"IOError", "SSHException"} : Throw(t, e, "ECONNREFUSED")
        /\ UNCHANGED <<sessVars, tmp>>
  /\ UNCHANGED <<fsVars, torn, call, budget, last>>

\* --------------------------------------- __downloadFileIfNotExists (52-61)
\* the places of __downloadFileIfNotExists and of the session setup in it
DlPcs == {"dl_exists", "dl_direxists", "dl_makedirs", "gs_check", "gs_connect", "gs_wait",
          "dl_put", "dl_putwait"}
\* thread u is inside __downloadFileIfNotExists(p)
InDl(u, p) == call[u].op \in DlOps /\ call[u].path = p /\ pc[u] \in DlPcs

\* line 54
DlExists(t) ==
  /\ pc[t] = "dl_exists"
  /\ LET p == call[t].path
         pre == ~Exists(cache, p) /\ remote[p].kind = "file"
         conc == \E u \in Threads \ {t} : InDl(u, p)
     IN IF Exists(cache, p)
          THEN /\ tmp' = [tmp EXCEPT ![t].sawLocal = TRUE, ![t].dl = "hit", ![t].conc = conc]
               /\ Goto(t, AfterDl(call[t].op))
          ELSE /\ tmp' = [tmp EXCEPT ![t].pre = pre, ![t].conc = conc]
               /\ Goto(t, "dl_direxists")
  /\ UNCHANGED <<fsVars, sessVars, torn, call, budget, last>>

\* line 58
DlDirExists(t) ==
  /\ pc[t] = "dl_direxists"
  /\ Goto(t, IF Exists(cache, Parent(call[t].path)) THEN "gs_check" ELSE "dl_makedirs")
  /\ UNCHANGED <<fsVars, sessVars, torn, call, tmp, budget, last>>

\* line 59
DlMakedirs(t) ==
  /\ pc[t] = "dl_makedirs"
  /\ LET r == OsMakedirs(cache, Parent(call[t].path))
     IN /\ cache' = r.fs
        /\ IF r.err # "" THEN Finish(t, Raised("OSError", r.err)) ELSE Goto(t, "gs_check")
  /\ UNCHANGED <<srcfs, remote, uploaded, sessVars, torn, call, tmp, budget, last>>

\* line 61, sftp.put(remote_path, local_path): put opens the file of the
\* host named by its first argument and issues the upload of it
DlPut(t) ==
  /\ pc[t] = "dl_put"
  /\ LET src == srcfs[call[t].path]
     IN IF src.kind = "file"
          THEN /\ tmp' = [tmp EXCEPT ![t] = [Did(t, "put") EXCEPT !.got = src]]
               /\ Goto(t, "dl_putwait")
          ELSE /\ Finish(t, IF src.kind = "none" THEN Raised("OSError", "ENOENT")
                                                 ELSE Raised("IOError", "EISDIR"))
               /\ UNCHANGED tmp
  /\ UNCHANGED <<fsVars, sessVars, torn, call, budget, last>>

\* (a variant of DlPutDone whose failed transfer leaves a truncated file at
\* LocalPath, as an in-place copy that is cut short does)
DlPutDoneTruncating(t) ==
  /\ pc[t] = "dl_putwait"
  /\ Throw(t, "IOError", "EIO")
  /\ cache' = [cache EXCEPT ![call[t].path] = NewFile(<<>>)]
  /\ UNCHANGED <<srcfs, remote, uploaded, sessVars, torn, call, tmp, budget, last>>

\* line 61: the upload completes, and the server holds the host's file under
\* the name of the second argument; or it fails, before or after the server
\* has made the file
DlPutDone(t) ==
  /\ pc[t] = "dl_putwait"
  /\ LET p == call[t].path
     IN \/ /\ tmp[t].h \in alive
           /\ uploaded' = [uploaded EXCEPT ![p] = SrvFile(tmp[t].got.data)]
           /\ tmp' = [tmp EXCEPT ![t].dl = "fetched"]
           /\ Goto(t, AfterDl(call[t].op))
        \/ /\ Throw(t, "IOError", "EIO")
           /\ UNCHANGED <<uploaded, tmp>>
        \/ /\ tmp[t].h \in alive
           /\ Throw(t, "SSHException", "")
           /\ uploaded' = [uploaded EXCEPT ![p] = SrvFile(<<>>)]
           /\ UNCHANGED tmp
  /\ UNCHANGED <<cache, srcfs, remote, sessVars, torn, call, budget, last>>

\* ----------------------------------------------------------- getattr (73-84)
\* (a variant of GaExists that asks the server whatever the cache holds)
GaExistsRemoteFirst(t) ==
  /\ pc[t] = "ga_exists"
  /\ Goto(t, "gs_check")
  /\ UNCHANGED <<fsVars, sessVars, torn, call, tmp, budget, last>>

\* line 74
GaExists(t) ==
  /\ pc[t] = "ga_exists"
  /\ IF Exists(cache, call[t].path)
       THEN /\ tmp' = [tmp EXCEPT ![t].sawLocal = TRUE]
            /\ Goto(t, "ga_lstat")
       ELSE /\ Goto(t, "gs_check")
            /\ UNCHANGED tmp
  /\ UNCHANGED <<fsVars, sessVars, torn, call, budget, last>>

\* lines 75 and 82-84
GaLstat(t) ==
  /\ pc[t] = "ga_lstat"
  /\ LET n == cache[call[t].path]
     IN Finish(t, IF n.kind = "none" THEN Raised("OSError", "ENOENT") ELSE Ok(StatOf(n)))
  /\ UNCHANGED <<fsVars, sessVars, torn, call, tmp, budget, last>>

\* line 79: sftp.lstat is issued
GaRlstat(t) ==
  /\ pc[t] = "ga_rlstat"
  /\ tmp' = [tmp EXCEPT ![t] = Did(t, "lstat")]
  /\ Goto(t, "ga_rwait")
  /\ UNCHANGED <<fsVars, sessVars, torn, call, budget, last>>

\* (a variant of GaRlstatDone that keeps a local copy of what it has asked
\* the server about)
GaRlstatDoneCaching(t) ==
  /\ pc[t] = "ga_rwait"
  /\ LET n == remote[call[t].path]
     IN \/ /\ tmp[t].h \in alive
           /\ IF n.kind = "none" THEN Throw(t, "IOError", "ENOENT") ELSE Finish(t, Ok(StatOf(n)))
           /\ cache' = IF n.kind = "none" THEN cache ELSE [cache EXCEPT ![call[t].path] = n]
        \/ /\ Throw(t, "IOError", "EIO")
           /\ cache' = cache
        \/ /\ tmp[t].h \in alive
           /\ Throw(t, "SSHException", "")
           /\ cache' = cache
  /\ UNCHANGED <<srcfs, remote, uploaded, sessVars, torn, call, tmp, budget, last>>

\* lines 79-84: the server answers with the attributes or with "no such
\* file" (an IOError), or the call fails on the connection
GaRlstatDone(t) ==
  /\ pc[t] = "ga_rwait"
  /\ LET n == remote[call[t].path]
     IN \/ /\ tmp[t].h \in alive
           /\ IF n.kind = "none" THEN Throw(t, "IOError", "ENOENT") ELSE Finish(t, Ok(StatOf(n)))
        \/ Throw(t, "IOError", "EIO")
        \/ /\ tmp[t].h \in alive
           /\ Throw(t, "SSHException", "")
  /\ UNCHANGED <<fsVars, sessVars, torn, call, tmp, budget, last>>

\* ----------------------------------------------------------- readdir (86-92)
\* lines 87-89
RdExists(t) ==
  /\ pc[t] = "rd_exists"
  /\ LET here == Exists(cache, call[t].path)
     IN /\ tmp' = [tmp EXCEPT ![t].files = SetToBag({".", ".."}), ![t].sawLocal = here]
        /\ Goto(t, IF here THEN "rd_listdir" ELSE "gs_check")
  /\ UNCHANGED <<fsVars, sessVars, torn, call, budget, last>>

\* line 90
RdListdir(t) ==
  /\ pc[t] = "rd_listdir"
  /\ LET p == call[t].path
     IN IF cache[p].kind = "dir"
          THEN /\ tmp' = [tmp EXCEPT ![t].files = @ (+) Listing(cache, p)]
               /\ Goto(t, "gs_check")
          ELSE /\ Finish(t, Raised("OSError", IF Exists(cache, p) THEN "ENOTDIR" ELSE "ENOENT"))
               /\ UNCHANGED tmp
  /\ UNCHANGED <<fsVars, sessVars, torn, call, budget, last>>

\* line 92: sftp.listdir is issued
RdRlist(t) ==
  /\ pc[t] = "rd_rlist"
  /\ tmp' = [tmp EXCEPT ![t] = Did(t, "listdir")]
  /\ Goto(t, "rd_rwait")
  /\ UNCHANGED <<fsVars, sessVars, torn, call, budget, last>>

\* (a variant of ReaddirResult without the set(): names may repeat)
ReaddirResultKeepDups(files, names) == files (+) names

\* the value of line 92 once the server has answered
ReaddirResult(files, names) == ListOfSet(files (+) names)

\* line 92: the server answers with the names, or with an IOError when the
\* path is no directory of it, or the call fails on the connection
RdRlistDone(t) ==
  /\ pc[t] = "rd_rwait"
  /\ LET p == call[t].path
     IN \/ /\ tmp[t].h \in alive
           /\ IF remote[p].kind = "dir"
                THEN Finish(t, Ok(ReaddirResult(tmp[t].files, Listing(remote, p))))
                ELSE Throw(t, "IOError", "ENOENT")
        \/ Throw(t, "IOError", "EIO")
        \/ /\ tmp[t].h \in alive
           /\ Throw(t, "SSHException", "")
  /\ UNCHANGED <<fsVars, sessVars, torn, call, tmp, budget, last>>

\* --------------------------------------------------- the local handlers
\* mkdir, line 95 (the mode argument is not passed on)
Mkdir(t) ==
  /\ pc[t] = "mkdir_io"
  /\ EndLocal(t, OsMkdir(cache, call[t].path), "None")

\* (a variant of Read that drops the cached file once it has been read)
ReadEvicting(t) ==
  /\ pc[t] = "read_io"
  /\ LET r == OpenRead(cache, call[t].path, call[t].size, call[t].offset)
     IN /\ Finish(t, IF r.err # "" THEN Raised("IOError", r.err) ELSE Ok(r.buf))
        /\ cache' = IF r.err = "" THEN [cache EXCEPT ![call[t].path] = Absent] ELSE cache
  /\ UNCHANGED <<srcfs, remote, uploaded, sessVars, torn, call, tmp, budget, last>>

\* read, lines 100-103
Read(t) ==
  /\ pc[t] = "read_io"
  /\ LET r == OpenRead(cache, call[t].path, call[t].size, call[t].offset)
     IN Finish(t, IF r.err # "" THEN Raised("IOError", r.err) ELSE Ok(r.buf))
  /\ UNCHANGED <<fsVars, sessVars, torn, call, tmp, budget, last>>

\* write, lines 107-110
Write(t) ==
  /\ pc[t] = "write_io"
  /\ LET r == OpenAppendWrite(cache, call[t].path, call[t].data, call[t].offset)
     IN /\ cache' = r.fs
        /\ Finish(t, IF r.err # "" THEN Raised("IOError", r.err) ELSE Ok(Len(call[t].data)))
  /\ UNCHANGED <<srcfs, remote, uploaded, sessVars, torn, call, tmp, budget, last>>

\* rename, lines 114-116
Rename(t) ==
  /\ pc[t] = "rename_io"
  /\ EndLocal(t, OsRename(cache, call[t].path, call[t].new), "None")

\* (a variant of RmdirExists without the test of line 119)
RmdirUnguarded(t) ==
  /\ pc[t] = "rmdir_exists"
  /\ Goto(t, "rmdir_io")
  /\ UNCHANGED <<fsVars, sessVars, torn, call, tmp, budget, last>>

\* rmdir, line 119
RmdirExists(t) ==
  /\ pc[t] = "rmdir_exists"
  /\ IF Exists(cache, call[t].path)
       THEN /\ tmp' = [tmp EXCEPT ![t].sawLocal = TRUE]
            /\ Goto(t, "rmdir_io")
       ELSE /\ Finish(t, Ok("None"))
            /\ UNCHANGED tmp
  /\ UNCHANGED <<fsVars, sessVars, torn, call, budget, last>>

\* rmdir, line 120
Rmdir(t) ==
  /\ pc[t] = "rmdir_io"
  /\ EndLocal(t, OsRmdir(cache, call[t].path), "None")

\* unlink, line 123
Unlink(t) ==
  /\ pc[t] = "unlink_io"
  /\ EndLocal(t, OsUnlink(cache, call[t].path), "None")

\* chmod, line 127
Chmod(t) ==
  /\ pc[t] = "chmod_io"
  /\ EndLocal(t, OsChmod(cache, call[t].path, call[t].mode), "None")

\* chown, line 131
Chown(t) ==
  /\ pc[t] = "chown_io"
  /\ EndLocal(t, OsChown(cache, call[t].path, call[t].uid, call[t].gid), "None")

\* destroy, line 70: self.sftp.close(), an AttributeError when self.sftp is
\* still None
DestroySftp(t) ==
  /\ pc[t] = "destroy_sftp"
  /\ IF sftp = 0
       THEN /\ Finish(t, Raised("AttributeError", ""))
            /\ UNCHANGED alive
       ELSE /\ alive' = alive \ {sftp}
            /\ Goto(t, "destroy_client")
  /\ UNCHANGED <<fsVars, sftp, nsetup, torn, call, tmp, budget, last>>

\* destroy, line 71: self.client.close() ends the newest connection
DestroyClient(t) ==
  /\ pc[t] = "destroy_client"
  /\ alive' = alive \ {nsetup}
  /\ Finish(t, Ok("None"))
  /\ UNCHANGED <<fsVars, sftp, nsetup, torn, call, tmp, budget, last>>

\* ------------------------------------------------------ the specifications
Step(t) ==
  \/ Dispatch(t)
  \/ GsCheck(t) \/ GsConnect(t) \/ GsDone(t)
  \/ DlExists(t) \/ DlDirExists(t) \/ DlMakedirs(t) \/ DlPut(t) \/ DlPutDone(t)
  \/ GaExists(t) \/ GaLstat(t) \/ GaRlstat(t) \/ GaRlstatDone(t)
  \/ RdExists(t) \/ RdListdir(t) \/ RdRlist(t) \/ RdRlistDone(t)
  \/ Mkdir(t) \/ Read(t) \/ Write(t) \/ Rename(t) \/ RmdirExists(t) \/ Rmdir(t)
  \/ Unlink(t) \/ Chmod(t) \/ Chown(t) \/ DestroySftp(t) \/ DestroyClient(t)

\* the handlers of all worker threads interleave (nothreads=False)
Next == \E t \in Threads : Step(t)
Spec == Init /\ [][Next]_vars

\* one worker thread: the calls run one after the other
SeqNext == Step("t1")
SeqSpec == SeqInit /\ [][SeqNext]_vars

\* ================================================================ claims
PathOf(t) == call[t].path
Puts(t) == Count(tmp[t].rc, "put")
\* thread t has just returned from __downloadFileIfNotExists
BackFromDl(t) == call[t].op \in DlOps /\ tmp[t].dl # "no" /\ pc[t] = AfterDl(call[t].op)
\* the places where a remote call is in progress
RemotePcs == {"gs_wait", "ga_rwait", "rd_rwait", "dl_putwait"}
\* LocalPath(p) holds the whole content of the remote object
HoldsRemote(p) == cache[p].kind = "file" /\ cache[p].data = remote[p].data

\* C1: when __downloadFileIfNotExists(P) returns for a P that was not in the
\* cache and whose remote object exists, LocalPath(P) exists and its content
\* is the remote object's content.
C1_FetchFillsCache ==
  \A t \in Threads : (BackFromDl(t) /\ tmp[t].pre) => HoldsRemote(PathOf(t))

\* C2: of the calls of __downloadFileIfNotExists(P) that run at the same time
\* for an uncached P with a remote object, one alone issues a transfer, and
\* each returns only when LocalPath(P) holds the whole remote content.
C2_SingleFlight ==
  \A t, u \in Threads :
    (t # u /\ call[t].op \in DlOps /\ call[u].op \in DlOps /\ PathOf(t) = PathOf(u)
       /\ tmp[t].pre /\ tmp[u].pre /\ (tmp[t].conc \/ tmp[u].conc))
    => /\ Puts(t) + Puts(u) <= 1
       /\ BackFromDl(t) => HoldsRemote(PathOf(t))

\* C3: no step of any handler changes what the server holds.
C3_RemoteUntouched == [][remote' = remote /\ uploaded' = uploaded]_vars

\* C4: __downloadFileIfNotExists(P) issues no remote call when LocalPath(P)
\* exists, and two calls of it in sequence, the first for an uncached P with
\* a remote object, issue one transfer in total.
C4_OneFetchInTwoCalls ==
  \A t \in Threads :
    /\ (call[t].op \in DlOps /\ tmp[t].dl = "hit") => tmp[t].rc = <<>>
    /\ (pc[t] = "done" /\ call[t].op \in DlOps /\ tmp[t].dl # "no"
          /\ last.op \in DlOps /\ last.path = PathOf(t) /\ last.pre /\ last.dl # "no")
       => last.puts + Puts(t) = 1

\* the bytes of old with those of bytes put at offset
Patch(old, offset, bytes) ==
  [i \in 1..(IF Len(old) > offset + Len(bytes) THEN Len(old) ELSE offset + Len(bytes)) |->
     IF i > offset /\ i <= offset + Len(bytes) THEN bytes[i - offset] ELSE old[i]]

\* C5: a write that succeeds on a P that was only remote, and that ends
\* within the remote length, leaves at LocalPath(P) the remote content with
\* the written bytes replaced at the offset, all else and the length as it was.
C5_WritePatchesRemoteContent ==
  \A t \in Threads :
    (pc[t] = "done" /\ call[t].op = "write" /\ tmp[t].pre /\ ret[t].status = "ok"
       /\ call[t].offset + Len(call[t].data) <= Len(remote[PathOf(t)].data))
    => /\ cache[PathOf(t)].kind = "file"
       /\ cache[PathOf(t)].data = Patch(remote[PathOf(t)].data, call[t].offset, call[t].data)

\* C6: getattr ends with ENOENT only when the object exists neither locally
\* nor remotely; a failed session setup or a failed remote call ends otherwise.
C6_NotFoundOnlyWhenAbsent ==
  \A t \in Threads :
    (pc[t] = "done" /\ call[t].op = "getattr" /\ ret[t].status = "raise" /\ ret[t].errno = "ENOENT")
    => (~Exists(cache, PathOf(t)) /\ ~Exists(remote, PathOf(t)))

\* C7: __downloadFileIfNotExists(P) for a P that is missing locally and
\* remotely changes nothing in the cache (no parent directory is made) and
\* raises nothing of its own (a failure of the server aside).
C7_AbsentRemoteNoEffect ==
  [][\A t \in Threads :
       (call[t].op \in DlOps /\ pc[t] \in DlPcs /\ ~Exists(cache, PathOf(t))
          /\ ~Exists(remote, PathOf(t)))
       => /\ cache' = cache
          /\ (pc[t] \notin RemotePcs => ret'[t].status # "raise")]_vars

\* C8: while LocalPath(P) exists, getattr(P) issues no remote call and sets
\* up no session, and what it returns are the attributes of the local copy.
C8_LocalWins ==
  \A t \in Threads :
    (call[t].op = "getattr" /\ Exists(cache, PathOf(t)))
    => /\ tmp[t].rc = <<>>
       /\ tmp[t].h = 0
       /\ pc[t] = "done" => (ret[t].status = "ok" /\ ret[t].val = StatOf(cache[PathOf(t)]))
\* a getattr has answered from a local copy whose remote object has other attributes
C8_Witness ==
  \E t \in Threads :
    /\ pc[t] = "done" /\ call[t].op = "getattr" /\ ret[t].status = "ok"
    /\ Exists(cache, PathOf(t)) /\ Exists(remote, PathOf(t))
    /\ StatOf(cache[PathOf(t)]) # StatOf(remote[PathOf(t)])

\* C9: a readdir that returns gives '.' and '..', the names of the local
\* directory if there is one and the names of the remote directory, each name
\* once, and it has asked the server for its listing once.
C9_ListingIsUnion ==
  \A t \in Threads :
    (pc[t] = "done" /\ call[t].op = "readdir" /\ ret[t].status = "ok")
    => /\ ret[t].val = SetToBag({".", ".."}
                                 \cup (IF cache[PathOf(t)].kind = "dir"
                                         THEN Entries(cache, PathOf(t)) ELSE {})
                                 \cup Entries(remote, PathOf(t)))
       /\ Count(tmp[t].rc, "listdir") = 1
\* the spec's example: the local directory holds x, the remote one x and y
C9_Witness ==
  \E t \in Threads :
    /\ pc[t] = "done" /\ call[t].op = "readdir" /\ ret[t].status = "ok"
    /\ Entries(cache, PathOf(t)) = {"x"} /\ Entries(remote, PathOf(t)) = {"x", "y"}
    /\ ret[t].val = SetToBag({".", "..", "x", "y"})

\* C10: at most one remote call is in progress at any time.
C10_RemoteCallsExclusive ==
  Cardinality({t \in Threads : pc[t] \in RemotePcs}) <= 1

\* C11: over the lifetime of a mount, under any interleaving, the connection
\* is set up at most once: no second session handle is ever created.
C11_OneSessionSetup == nsetup <= 1

\* the finished call of thread t had to reach the server: a getattr of an
\* uncached path, a readdir, a __downloadFileIfNotExists of an uncached path
NeededRemote(t) ==
  \/ call[t].op = "getattr" /\ ~Exists(cache, PathOf(t))
  \/ call[t].op = "readdir" /\ cache[PathOf(t)].kind # "file"
  \/ call[t].op \in DlOps /\ tmp[t].dl = "no" /\ ~Exists(cache, PathOf(t))
\* the teardown hook has closed the session
SessionClosed == torn /\ sftp # 0 /\ sftp \notin alive

\* C12: once destroy has closed the session, a later call that needs the
\* server ends with a connection error: it does not succeed, does not report
\* ENOENT and does not connect again.
C12_ClosedSessionFails ==
  \A t \in Threads :
    (pc[t] = "done" /\ call[t].op # "destroy" /\ SessionClosed /\ NeededRemote(t))
    => /\ ret[t].status = "raise"
       /\ ret[t].exc \in {"IOError", "SSHException"}
       /\ ret[t].errno # "ENOENT"
       /\ Count(tmp[t].rc, "connect") = 0

\* C13: no step of __downloadFileIfNotExists(P), the failed end of a transfer
\* included, puts at LocalPath(P) anything but the complete remote content:
\* each step leaves the entry there as it was or complete.
C13_NoPartialFile ==
  [][\A t \in Threads :
       (call[t].op \in DlOps /\ pc[t] \in DlPcs /\ pc'[t] # pc[t])
       => \/ cache'[PathOf(t)] = cache[PathOf(t)]
          \/ (cache'[PathOf(t)].kind = "file"
                /\ cache'[PathOf(t)].data = remote'[PathOf(t)].data)]_vars
\* a transfer for an uncached path with a remote object has failed, and
\* LocalPath is absent
C13_Witness ==
  \E t \in Threads :
    /\ pc[t] = "done" /\ call[t].op \in DlOps /\ tmp[t].pre /\ Puts(t) = 1
    /\ ret[t].status = "raise" /\ ~Exists(cache, PathOf(t))

\* C14: after an unlink(P) that removed the local copy, the next getattr(P)
\* finds no local copy and asks the server: it returns the remote attributes
\* if the remote object exists, and ends with ENOENT only if it does not.
C14_UnlinkThenRemote ==
  \A t \in Threads :
    (pc[t] = "done" /\ call[t].op = "getattr" /\ last.op = "unlink" /\ last.ok
       /\ last.path = PathOf(t))
    => /\ ~Exists(cache, PathOf(t))
       /\ Exists(remote, PathOf(t))
            => (ret[t].status = "ok" /\ ret[t].val = StatOf(remote[PathOf(t)]))
       /\ (ret[t].status = "raise" /\ ret[t].errno = "ENOENT") => ~Exists(remote, PathOf(t))

\* C15: a rename(old, new) with old only remote and nothing local at new,
\* whose __downloadFileIfNotExists(old) has returned, succeeds, and afterwards
\* LocalPath(new) holds the whole content of the remote object at old and
\* LocalPath(old) does not exist.
C15_RenameAdopts ==
  \A t \in Threads :
    (pc[t] = "done" /\ call[t].op = "rename" /\ tmp[t].pre /\ tmp[t].dl = "fetched"
       /\ (ret[t].status = "ok" \/ ~Exists(cache, call[t].new)))
    => /\ ret[t].status = "ok"
       /\ cache[call[t].new].kind = "file"
       /\ cache[call[t].new].data = remote[PathOf(t)].data
       /\ ~Exists(cache, PathOf(t))

\* C16: the step of rmdir(P) that finds no LocalPath(P) ends the call with
\* success and changes nothing: not the cache, not the server, not the
\* session; and the call has issued no remote call.
C16_RmdirAbsentNoOp ==
  [][\A t \in Threads :
       (pc[t] = "rmdir_exists" /\ pc'[t] # pc[t] /\ ~Exists(cache, PathOf(t)))
       => /\ pc'[t] = "done"
          /\ ret'[t].status = "ok"
          /\ tmp'[t].rc = <<>>
          /\ UNCHANGED <<cache, srcfs, remote, uploaded, sftp, nsetup, alive>>]_vars
\* an rmdir of a path with no local directory has returned
C16_Witness ==
  \E t \in Threads :
    /\ pc[t] = "done" /\ call[t].op = "rmdir" /\ ~tmp[t].sawLocal
    /\ ~Exists(cache, PathOf(t)) /\ ret[t].status = "ok"

\* C17: of two calls of __downloadFileIfNotExists for different paths under
\* the same missing local directory, neither fails because the other made the
\* directory first: none ends with "file exists" from os.makedirs.
C17_MakedirsTolerant ==
  \A t, u \in Threads :
    (t # u /\ call[t].op \in DlOps /\ call[u].op \in DlOps /\ PathOf(t) # PathOf(u)
       /\ Parent(PathOf(t)) = Parent(PathOf(u)) /\ pc[t] = "done")
    => ~(ret[t].status = "raise" /\ ret[t].exc = "OSError" /\ ret[t].errno = "EEXIST")

\* thread t takes the step of handler o that changes the local tree
LocalStep(t, o) == call[t].op = o /\ pc[t] = o \o "_io" /\ pc'[t] = "done"

\* C18 as stated: an entry at LocalPath(P) disappears only in a step of
\* unlink(P), of rmdir(P), or of a rename whose source is P.
C18_OnlyExplicitRemoval ==
  [][\A p \in AllPaths :
       (Exists(cache, p) /\ ~Exists(cache', p))
       => \E t \in Threads :
            /\ call[t].path = p
            /\ LocalStep(t, "unlink") \/ LocalStep(t, "rmdir") \/ LocalStep(t, "rename")]_vars

\* C18, amended: an entry at LocalPath(P) disappears only in a step of
\* unlink(P), of rmdir(P), or of a rename whose source is P or a directory
\* above P; no step of any other handler removes an entry.
C18_NoEviction ==
  [][\A p \in AllPaths :
       (Exists(cache, p) /\ ~Exists(cache', p))
       => \E t \in Threads :
            \/ call[t].path = p /\ (LocalStep(t, "unlink") \/ LocalStep(t, "rmdir"))
            \/ IsPrefix(call[t].path, p) /\ LocalStep(t, "rename")]_vars

\* a rename of the directory d has succeeded, and the entry below it that
\* was there before the call is gone from its old place
C18_Witness ==
  \E t \in Threads :
    /\ pc[t] = "done" /\ call[t].op = "rename" /\ call[t].path = D /\ call[t].new = E
    /\ ret[t].status = "ok"
    /\ ~Exists(cache, DX) /\ Exists(cache, EX)

\* C19: no step of getattr or of readdir changes the local cache tree, its
\* entries or their contents, whether the call succeeds or fails and also
\* when the path exists on the server only.
C19_MetadataLeavesCache ==
  [][\A t \in Threads :
       (call[t].op \in {"getattr", "readdir"} /\ pc[t] \notin {"idle", "done"} /\ pc'[t] # pc[t])
       => cache' = cache]_vars

\* a getattr of a path that is on the server only has answered from the
\* server with its attributes
C19_Witness ==
  \E t \in Threads :
    /\ pc[t] = "done" /\ call[t].op = "getattr" /\ ret[t].status = "ok"
    /\ ~Exists(cache, PathOf(t)) /\ Exists(remote, PathOf(t))
    /\ Count(tmp[t].rc, "lstat") = 1

\* C20: destroy completes without an error in every state, also on a mount
\* where no remote access has happened and self.sftp is still None.
C20_DestroySucceeds ==
  \A t \in Threads :
    (pc[t] = "done" /\ call[t].op = "destroy") => ret[t].status = "ok"
====
